---- MODULE Spec2Model ----
(***************************************************************************)
(* Model of the always_send crate (src/src/lib.rs): the transparent        *)
(* wrapper AlwaysSend<T>, its Send-checked constructors, the unconditional *)
(* Send impl, the pin projections and the forwarded Future / Stream /      *)
(* FusedFuture / FusedStream implementations.                              *)
(*                                                                         *)
(* Memory is a map from addresses to values of some type T; an owned       *)
(* AlwaysSend<T> at an address has its inner field at InnerAddr(address).  *)
(* References are pointer values with a static pointee type.  Trait bounds *)
(* are guards evaluated by the compiler at a call site.                    *)
(***************************************************************************)
EXTENDS Integers, Sequences, FiniteSets, TLC

\* ------------------------------------------------------------------ bounds
MaxAddr == 2
MaxRefs == 2
NThreads == 2
MaxCount == 1
MaxIncs == 2
MaxPending == 1
MaxItems == 2
NWakers == 2

Addr == 1..MaxAddr
Threads == 1..NThreads
Wakers == 1..NWakers
NoAddr == 0
NoWaker == 0

\* ------------------------------------------------------- types and bounds
\* The types T the wrapper is instantiated with.  send: T is Send.
\* hr: the compiler fails to prove T: Send at a higher-ranked call site
\* (the tokio::spawn error of the type's documentation).  unpin: T: Unpin.
Types ==
  [ u8    |-> [kind |-> "counter", send |-> TRUE,  hr |-> FALSE, unpin |-> TRUE,  fused |-> FALSE],
    Rc    |-> [kind |-> "counter", send |-> FALSE, hr |-> FALSE, unpin |-> TRUE,  fused |-> FALSE],
    Ready |-> [kind |-> "future",  send |-> TRUE,  hr |-> FALSE, unpin |-> TRUE,  fused |-> TRUE],
    Async |-> [kind |-> "future",  send |-> TRUE,  hr |-> TRUE,  unpin |-> FALSE, fused |-> FALSE],
    Iter  |-> [kind |-> "stream",  send |-> TRUE,  hr |-> FALSE, unpin |-> TRUE,  fused |-> TRUE] ]

TypeNames == DOMAIN Types

\* Call sites at which the compiler evaluates a bound.
Sites == {"plain", "spawn"}

\* What the compiler proves about a bare T at a call site.
TSend(t, site) == Types[t].send /\ (site = "spawn" => ~Types[t].hr)

\* variant: impl<T: Send> Send for AlwaysSend<T> (the derived auto trait)
AlwaysSendIsSend_Derived(t, site) == TSend(t, site)

\* unsafe impl<T> Send for AlwaysSend<T> {}
AlwaysSendIsSend(t, site) == TRUE

\* variant: impl<T> Unpin for AlwaysSend<T> {}
AlwaysSendIsUnpin_Always(t) == TRUE

\* impl<T: Unpin> Unpin for AlwaysSend<T> {}
AlwaysSendIsUnpin(t) == Types[t].unpin

\* A static type is a pair (wrap, t): AlwaysSend<t> when wrap, else t.
IsSend(wrap, t, site) == IF wrap THEN AlwaysSendIsSend(t, site) ELSE TSend(t, site)
IsUnpin(wrap, t) == IF wrap THEN AlwaysSendIsUnpin(t) ELSE Types[t].unpin

\* variant: the constructors in an impl<T> block, without the bound
CtorBound_Unchecked(t, site) == TRUE

\* impl<T: Send> AlwaysSend<T> { new, from_ref, from_mut, from_pin_ref, from_pin_mut }
CtorBound(t, site) == TSend(t, site)

\* impl<T> AlwaysSend<T> { inner_pin, inner_pin_mut }
ProjBound(t) == TRUE

\* variant: a layout that puts the marker in front of inner
InnerAddr_Header(p) == p + 1

\* #[repr(transparent)] struct AlwaysSend<T> { pub inner: T, marker: PhantomData<..> }
\* offset of the field inner inside the wrapper
InnerOffset == 0
InnerAddr(p) == p + InnerOffset

\* r as *const T as *const Self : a pointer cast keeps the pointer value
CastPtr(p) == p

\* ------------------------------------------------- the wrapped values' code
Pending == [tag |-> "Pending", val |-> 0]
Ready(x) == [tag |-> "Ready", val |-> x]
SPending == [tag |-> "Pending", val |-> <<>>]
SReady(opt) == [tag |-> "Ready", val |-> opt]

\* A future: rem polls return Pending (registering the waker of the
\* context), the next returns Ready(out).  A future records the address it
\* is first polled at (address-sensitive state behind Pin).
FutInit(rem, out) ==
  [rem |-> rem, out |-> out, waker |-> NoWaker, self |-> NoAddr, done |-> FALSE, polls |-> 0]

\* F::poll(self: Pin<&mut F>, cx) -> <<result, new state>>
FPoll(f, cx, at) ==
  LET g == [f EXCEPT !.self = IF f.self = NoAddr THEN at ELSE f.self,
                     !.polls = f.polls + 1]
  IN IF f.rem = 0
       THEN <<Ready(f.out), [g EXCEPT !.done = TRUE]>>
       ELSE <<Pending, [g EXCEPT !.rem = f.rem - 1, !.waker = cx]>>

\* F::is_terminated(&self)
FIsTerminated(f) == f.done

\* A stream of items with one Pending before each item when stall is set.
StrInit(items, stall) ==
  [items |-> items, stall |-> stall, wait |-> stall, waker |-> NoWaker,
   self |-> NoAddr, done |-> FALSE, polls |-> 0]

\* S::poll_next(self: Pin<&mut S>, cx) -> <<result, new state>>
SPollNext(s, cx, at) ==
  LET g == [s EXCEPT !.self = IF s.self = NoAddr THEN at ELSE s.self,
                     !.polls = IF s.done THEN s.polls ELSE s.polls + 1]
  IN IF s.done THEN <<SReady(<<>>), g>>
     ELSE IF s.items = <<>> THEN <<SReady(<<>>), [g EXCEPT !.done = TRUE]>>
     ELSE IF s.wait THEN <<SPending, [g EXCEPT !.wait = FALSE, !.waker = cx]>>
     ELSE <<SReady(<<Head(s.items)>>), [g EXCEPT !.items = Tail(s.items), !.wait = s.stall]>>

\* S::size_hint(&self)
SSizeHint(s) == <<Len(s.items), <<Len(s.items)>> >>

\* S::is_terminated(&self)
SIsTerminated(s) == s.done

\* ------------------------------------------------------------------ state
VARIABLES
  stream,   \* the cargo feature "stream" is enabled
  mem,      \* address -> the value of type T stored there (or free)
  refs,     \* the live references
  lastOp    \* the last operation and what it returned

vars == <<stream, mem, refs, lastOp>>

Free ==
  [ty |-> "none", val |-> 0, wrapped |-> FALSE, thread |-> 0, pinned |-> FALSE,
   twin |-> 0, whist |-> <<>>, dhist |-> <<>>, base |-> 0, incs |-> 0]

Live(m, a) == a \in Addr /\ m[a].ty # "none"
KindAt(m, a) == IF Live(m, a) THEN Types[m[a].ty].kind ELSE "none"

\* value read through a pointer to T; a pointer that does not point at a
\* live T of the expected kind reads a value that is not the target's
Wild(kind) ==
  CASE kind = "future" -> FutInit(0, 0)
    [] kind = "stream" -> StrInit(<<>>, FALSE)
    [] OTHER -> 0 - 1
Load(m, p, kind) == IF KindAt(m, p) = kind THEN m[p].val ELSE Wild(kind)
Store(m, p, kind, v) == IF KindAt(m, p) = kind THEN [m EXCEPT ![p].val = v] ELSE m

\* variant: a setter that validates the value instead of a public field
WriteField_Clamp(old, v) == IF v > MaxCount THEN old ELSE v

\* pub inner: T -- a write to the place wrapper.inner
WriteField(old, v) == v

\* Self { inner, marker: PhantomData }
AlwaysSendNew(inner) == [inner |-> inner, marker |-> "PhantomData"]

RefsTo(a) == {r \in refs : r.target = a}
NoOp == [op |-> "init", a |-> NoAddr, site |-> "plain", v |-> 0, d |-> 0]
Op(op, a, site, v, d) == [op |-> op, a |-> a, site |-> site, v |-> v, d |-> d]

Outs == {7}
InitVals(t) ==
  CASE Types[t].kind = "counter" -> 0..MaxCount
    [] Types[t].kind = "future" -> {FutInit(n, o) : n \in 0..MaxPending, o \in Outs}
    [] OTHER -> {StrInit([i \in 1..n |-> i], st) : n \in 0..MaxItems, st \in BOOLEAN}

Init ==
  /\ stream \in BOOLEAN
  /\ mem = [a \in Addr |-> Free]
  /\ refs = {}
  /\ lastOp = NoOp

\* ---------------------------------------------------- the caller's own code
\* a value of type T comes into existence (the argument of a constructor,
\* or the target of a reference handed to from_ref and the like).  No
\* operation of the crate involves two values, so one value is followed at
\* a time; the other addresses are where it can be moved to.
Alloc(a, t, v) ==
  /\ ~Live(mem, a)
  /\ \A b \in Addr : ~Live(mem, b)
  /\ v \in InitVals(t)
  /\ mem' = [mem EXCEPT ![a] =
       [Free EXCEPT !.ty = t, !.val = v, !.thread = 1, !.twin = v, !.base = v]]
  /\ lastOp' = Op("alloc", a, "plain", 0, 0)
  /\ UNCHANGED <<stream, refs>>

\* &x, &mut x, Pin<&x>, Pin<&mut x> of an owned value (bare T or wrapper).
\* Pinning a value whose type is not Unpin is a promise never to move it.
Borrow(a, m, p) ==
  /\ Live(mem, a)
  /\ Cardinality(refs) < MaxRefs
  /\ IF m THEN RefsTo(a) = {} ELSE \A r \in RefsTo(a) : ~r.mut
  /\ refs' = refs \cup
       {[ptr |-> a, target |-> a, ty |-> mem[a].ty, mut |-> m, pin |-> p,
         wrap |-> mem[a].wrapped, via |-> "borrow"]}
  /\ mem' = [mem EXCEPT ![a].pinned =
       mem[a].pinned \/ (p /\ ~IsUnpin(mem[a].wrapped, mem[a].ty))]
  /\ lastOp' = Op("borrow", a, "plain", 0, 0)
  /\ UNCHANGED stream

\* a reference goes out of scope
Release(r) ==
  /\ r \in refs
  /\ refs' = refs \ {r}
  /\ lastOp' = Op("release", r.target, "plain", 0, 0)
  /\ UNCHANGED <<stream, mem>>

\* an owned value is moved to another place (a memcpy)
Relocate(a, b) ==
  /\ Live(mem, a) /\ b \in Addr /\ ~Live(mem, b)
  /\ RefsTo(a) = {} /\ ~mem[a].pinned
  /\ mem' = [mem EXCEPT ![b] = mem[a], ![a] = Free]
  /\ lastOp' = Op("relocate", b, "plain", 0, 0)
  /\ UNCHANGED <<stream, refs>>

\* an owned value is handed to another thread: needs its type to be Send
SendTo(a, th, site) ==
  /\ Live(mem, a) /\ th \in Threads /\ th # mem[a].thread
  /\ RefsTo(a) = {} /\ ~mem[a].pinned
  /\ IsSend(mem[a].wrapped, mem[a].ty, site)
  /\ mem' = [mem EXCEPT ![a].thread = th]
  /\ lastOp' = Op("send", a, site, mem[a].val, 0)
  /\ UNCHANGED <<stream, refs>>

\* scope exit; AlwaysSend has no Drop impl
Drop(a) ==
  /\ Live(mem, a) /\ RefsTo(a) = {}
  /\ mem' = [mem EXCEPT ![a] = Free]
  /\ lastOp' = Op("drop", a, "plain", 0, 0)
  /\ UNCHANGED <<stream, refs>>

\* ------------------------------------------------------------ constructors
\* variant: the wrapper is built around a fresh value, not the argument
Construct_Fresh(a, site, op) ==
  /\ Live(mem, a) /\ ~mem[a].wrapped
  /\ RefsTo(a) = {} /\ ~mem[a].pinned
  /\ \E v \in InitVals(mem[a].ty) :
       /\ v # mem[a].val
       /\ mem' = [mem EXCEPT ![a].wrapped = TRUE, ![a].val = v]
  /\ lastOp' = Op(op, a, site, mem[a].val, 0)
  /\ UNCHANGED <<stream, refs>>

\* the body shared by new, From::from and always_send: the value at a is
\* moved into a wrapper
Construct(a, site, op) ==
  /\ Live(mem, a) /\ ~mem[a].wrapped
  /\ RefsTo(a) = {} /\ ~mem[a].pinned
  /\ mem' = [mem EXCEPT ![a].wrapped = TRUE,
                        ![a].val = AlwaysSendNew(mem[a].val).inner]
  /\ lastOp' = Op(op, a, site, mem[a].val, 0)
  /\ UNCHANGED <<stream, refs>>

\* impl<T: Send> AlwaysSend<T> { pub fn new(inner: T) -> Self }
New(a, site) ==
  /\ Live(mem, a) /\ CtorBound(mem[a].ty, site)
  /\ Construct(a, site, "new")

\* impl<T: Send> From<T> for AlwaysSend<T> { fn from(value) { AlwaysSend::new(value) } }
FromBound(t, site) == TSend(t, site)
From(a, site) ==
  /\ Live(mem, a) /\ FromBound(mem[a].ty, site) /\ CtorBound(mem[a].ty, site)
  /\ Construct(a, site, "from")

\* pub trait FutureExt: Future + Send + Sized; impl<F: Future + Send> FutureExt for F
FutureExtBound(t, site) == Types[t].kind = "future" /\ TSend(t, site)
\* pub trait StreamExt: Stream + Send + Sized  (feature "stream")
StreamExtBound(t, site) == stream /\ Types[t].kind = "stream" /\ TSend(t, site)

\* fn always_send(self) -> AlwaysSend<Self> { AlwaysSend::new(self) }
AlwaysSendExt(a, site) ==
  /\ Live(mem, a)
  /\ IF Types[mem[a].ty].kind = "future"
       THEN FutureExtBound(mem[a].ty, site)
       ELSE StreamExtBound(mem[a].ty, site)
  /\ CtorBound(mem[a].ty, site)
  /\ Construct(a, site, "always_send")

\* a reference r is replaced by the reference a conversion makes of it
Convert(r, site, op, ptr, wrap) ==
  /\ refs' = (refs \ {r}) \cup {[r EXCEPT !.ptr = ptr, !.wrap = wrap, !.via = op]}
  /\ lastOp' = Op(op, r.target, site, r.ptr, ptr)
  /\ UNCHANGED <<stream, mem>>

\* pub fn from_ref(r: &T) -> &Self { unsafe { &*(r as *const T as *const Self) } }
FromRef(r, site) ==
  /\ r \in refs /\ ~r.wrap /\ ~r.mut /\ ~r.pin
  /\ CtorBound(r.ty, site)
  /\ Convert(r, site, "from_ref", CastPtr(r.ptr), TRUE)

\* pub fn from_mut(r: &mut T) -> &mut Self { unsafe { &mut *(r as *mut T as *mut Self) } }
FromMut(r, site) ==
  /\ r \in refs /\ ~r.wrap /\ r.mut /\ ~r.pin
  /\ CtorBound(r.ty, site)
  /\ Convert(r, site, "from_mut", CastPtr(r.ptr), TRUE)

\* pub fn from_pin_ref(r: Pin<&T>) -> Pin<&Self> { unsafe { r.map_unchecked(Self::from_ref) } }
FromPinRef(r, site) ==
  /\ r \in refs /\ ~r.wrap /\ ~r.mut /\ r.pin
  /\ CtorBound(r.ty, site)
  /\ Convert(r, site, "from_pin_ref", CastPtr(r.ptr), TRUE)

\* pub fn from_pin_mut(r: Pin<&mut T>) -> Pin<&mut Self> { unsafe { r.map_unchecked_mut(Self::from_mut) } }
FromPinMut(r, site) ==
  /\ r \in refs /\ ~r.wrap /\ r.mut /\ r.pin
  /\ CtorBound(r.ty, site)
  /\ Convert(r, site, "from_pin_mut", CastPtr(r.ptr), TRUE)

\* ------------------------------------------------------------- projections
\* &wrapped.inner / &mut wrapped.inner  (the public field)
FieldRef(r) ==
  /\ r \in refs /\ r.wrap /\ ~r.pin
  /\ Convert(r, "plain", "field", InnerAddr(r.ptr), FALSE)

\* pub fn inner_pin(self: Pin<&Self>) -> Pin<&T> { unsafe { self.map_unchecked(|this| &this.inner) } }
InnerPin(r) ==
  /\ r \in refs /\ r.wrap /\ r.pin /\ ~r.mut
  /\ ProjBound(r.ty)
  /\ Convert(r, "plain", "inner_pin", InnerAddr(r.ptr), FALSE)

\* pub fn inner_pin_mut(self: Pin<&mut Self>) -> Pin<&mut T>
InnerPinMut(r) ==
  /\ r \in refs /\ r.wrap /\ r.pin /\ r.mut
  /\ ProjBound(r.ty)
  /\ Convert(r, "plain", "inner_pin_mut", InnerAddr(r.ptr), FALSE)

\* ----------------------------------------------------- access to the field
\* wrapped.inner = v through a &mut AlwaysSend<T>
WriteInner(r, v) ==
  /\ r \in refs /\ r.wrap /\ r.mut /\ ~r.pin
  /\ Types[r.ty].kind = "counter" /\ v \in 0..MaxCount
  /\ LET q == InnerAddr(r.ptr)
         m1 == Store(mem, q, "counter", WriteField(Load(mem, q, "counter"), v))
     IN mem' = [m1 EXCEPT ![r.target].base = v, ![r.target].incs = 0]
  /\ lastOp' = Op("write", r.target, "plain", v, 0)
  /\ UNCHANGED <<stream, refs>>

\* w.inner += 1 on an owned wrapper
IncInner(a) ==
  /\ Live(mem, a) /\ mem[a].wrapped /\ RefsTo(a) = {}
  /\ Types[mem[a].ty].kind = "counter" /\ mem[a].incs < MaxIncs
  /\ mem' = [mem EXCEPT ![a].val = WriteField(mem[a].val, mem[a].val + 1),
                        ![a].incs = mem[a].incs + 1]
  /\ lastOp' = Op("inc", a, "plain", mem[a].val + 1, 0)
  /\ UNCHANGED <<stream, refs>>

\* ------------------------------------------------------ forwarded traits
Last(h) == h[Len(h)]
Unfinished(h, end) == IF h = <<>> THEN TRUE ELSE Last(h) # end

\* variant: the wrapper polls again when the inner future is pending
AlwaysSendPoll_Twice(m, p, cx) ==
  LET q == InnerAddr(p)
      r1 == FPoll(Load(m, q, "future"), cx, q)
      r2 == IF r1[1] = Pending THEN FPoll(r1[2], cx, q) ELSE r1
  IN <<r2[1], Store(m, q, "future", r2[2])>>

\* impl<F: Future> Future for AlwaysSend<F>
\* fn poll(self: Pin<&mut Self>, cx) { self.inner_pin_mut().poll(cx) }
\* -> <<result, memory afterwards>>
AlwaysSendPoll(m, p, cx) ==
  LET q == InnerAddr(p)
      res == FPoll(Load(m, q, "future"), cx, q)
  IN <<res[1], Store(m, q, "future", res[2])>>

\* impl<S: Stream> Stream for AlwaysSend<S>
\* fn poll_next(self: Pin<&mut Self>, cx) { self.inner_pin_mut().poll_next(cx) }
AlwaysSendPollNext(m, p, cx) ==
  LET q == InnerAddr(p)
      res == SPollNext(Load(m, q, "stream"), cx, q)
  IN <<res[1], Store(m, q, "stream", res[2])>>

\* variant: size_hint not forwarded, the trait's default (0, None)
AlwaysSendSizeHint_Default(m, p) == <<0, <<>> >>

\* fn size_hint(&self) { self.inner.size_hint() }
AlwaysSendSizeHint(m, p) == SSizeHint(Load(m, InnerAddr(p), "stream"))

\* variant: the wrapper reports termination only from its own exhaustion
AlwaysSendStreamIsTerminated_Items(m, p) == Load(m, InnerAddr(p), "stream").items = <<>>

\* impl<S: FusedStream> FusedStream for AlwaysSend<S>
\* fn is_terminated(&self) -> bool { self.inner.is_terminated() }
AlwaysSendStreamIsTerminated(m, p) == SIsTerminated(Load(m, InnerAddr(p), "stream"))

\* impl<F: FusedFuture> FusedFuture for AlwaysSend<F>
\* fn is_terminated(&self) -> bool { self.inner.is_terminated() }
AlwaysSendFutureIsTerminated(m, p) == FIsTerminated(Load(m, InnerAddr(p), "future"))

\* the executor polls the wrapper; the same future polled directly is the
\* twin of the cell, kept alongside for comparison
Poll(r, cx) ==
  /\ r \in refs /\ r.wrap /\ r.pin /\ r.mut
  /\ Types[r.ty].kind = "future" /\ cx \in Wakers
  /\ Unfinished(mem[r.target].whist, Ready(mem[r.target].twin.out))
  /\ LET w == AlwaysSendPoll(mem, r.ptr, cx)
         d == FPoll(mem[r.target].twin, cx, r.target)
     IN /\ mem' = [w[2] EXCEPT ![r.target].twin = d[2],
                               ![r.target].whist = Append(mem[r.target].whist, w[1]),
                               ![r.target].dhist = Append(mem[r.target].dhist, d[1])]
        /\ lastOp' = Op("poll", r.target, "plain", w[1], d[1])
  /\ UNCHANGED <<stream, refs>>

PollNext(r, cx) ==
  /\ stream
  /\ r \in refs /\ r.wrap /\ r.pin /\ r.mut
  /\ Types[r.ty].kind = "stream" /\ cx \in Wakers
  /\ Unfinished(mem[r.target].whist, SReady(<<>>))
  /\ LET w == AlwaysSendPollNext(mem, r.ptr, cx)
         d == SPollNext(mem[r.target].twin, cx, r.target)
     IN /\ mem' = [w[2] EXCEPT ![r.target].twin = d[2],
                               ![r.target].whist = Append(mem[r.target].whist, w[1]),
                               ![r.target].dhist = Append(mem[r.target].dhist, d[1])]
        /\ lastOp' = Op("poll_next", r.target, "plain", w[1], d[1])
  /\ UNCHANGED <<stream, refs>>

SizeHint(r) ==
  /\ stream
  /\ r \in refs /\ r.wrap /\ Types[r.ty].kind = "stream"
  /\ lastOp' = Op("size_hint", r.target, "plain",
                  AlwaysSendSizeHint(mem, r.ptr), SSizeHint(mem[r.target].twin))
  /\ UNCHANGED <<stream, mem, refs>>

StreamIsTerminated(r) ==
  /\ stream
  /\ r \in refs /\ r.wrap /\ Types[r.ty].kind = "stream" /\ Types[r.ty].fused
  /\ lastOp' = Op("stream_is_terminated", r.target, "plain",
                  AlwaysSendStreamIsTerminated(mem, r.ptr), SIsTerminated(mem[r.target].twin))
  /\ UNCHANGED <<stream, mem, refs>>

FutureIsTerminated(r) ==
  /\ stream
  /\ r \in refs /\ r.wrap /\ Types[r.ty].kind = "future" /\ Types[r.ty].fused
  /\ lastOp' = Op("future_is_terminated", r.target, "plain",
                  AlwaysSendFutureIsTerminated(mem, r.ptr), FIsTerminated(mem[r.target].twin))
  /\ UNCHANGED <<stream, mem, refs>>

\* ------------------------------------------------------------ specification
Next ==
  \/ \E a \in Addr, t \in TypeNames : \E v \in InitVals(t) : Alloc(a, t, v)
  \/ \E a \in Addr, m \in BOOLEAN, p \in BOOLEAN : Borrow(a, m, p)
  \/ \E r \in refs : Release(r)
  \/ \E a \in Addr, b \in Addr : Relocate(a, b)
  \/ \E a \in Addr, th \in Threads, site \in Sites : SendTo(a, th, site)
  \/ \E a \in Addr : Drop(a)
  \/ \E a \in Addr, site \in Sites : New(a, site)
  \/ \E a \in Addr, site \in Sites : From(a, site)
  \/ \E a \in Addr, site \in Sites : AlwaysSendExt(a, site)
  \/ \E r \in refs, site \in Sites : FromRef(r, site)
  \/ \E r \in refs, site \in Sites : FromMut(r, site)
  \/ \E r \in refs, site \in Sites : FromPinRef(r, site)
  \/ \E r \in refs, site \in Sites : FromPinMut(r, site)
  \/ \E r \in refs : FieldRef(r)
  \/ \E r \in refs : InnerPin(r)
  \/ \E r \in refs : InnerPinMut(r)
  \/ \E r \in refs, v \in 0..MaxCount : WriteInner(r, v)
  \/ \E a \in Addr : IncInner(a)
  \/ \E r \in refs, cx \in Wakers : Poll(r, cx)
  \/ \E r \in refs, cx \in Wakers : PollNext(r, cx)
  \/ \E r \in refs : SizeHint(r)
  \/ \E r \in refs : StreamIsTerminated(r)
  \/ \E r \in refs : FutureIsTerminated(r)

Spec == Init /\ [][Next]_vars

TypeOK ==
  /\ stream \in BOOLEAN
  /\ \A a \in Addr : mem[a].ty \in TypeNames \cup {"none"}
  /\ \A r \in refs : r.target \in Addr /\ Live(mem, r.target) /\ r.ty = mem[r.target].ty

\* ------------------------------------------------------------------ claims
Ctors == {"new", "from", "always_send"}
RefCtors == {"from_ref", "from_mut", "from_pin_ref", "from_pin_mut"}
Wrappers == {a \in Addr : Live(mem, a) /\ mem[a].wrapped}
Idle(a) == RefsTo(a) = {} /\ ~mem[a].pinned

\* wrapping the reference r at a call site, by whichever of the four
\* reference constructors takes a reference of r's shape
RefWrap(r, site) ==
  FromRef(r, site) \/ FromMut(r, site) \/ FromPinRef(r, site) \/ FromPinMut(r, site)

\* the T of every wrapper, owned or behind a reference, is Send
C1_WrappersAreSend ==
  /\ \A a \in Wrappers : Types[mem[a].ty].send
  /\ \A r \in refs : r.wrap => Types[r.ty].send

\* a step in which a wrapper appears is a step of a checked constructor, or
\* a borrow or a move of a wrapper that exists
C1_OnlyCheckedPaths ==
  /\ \A a \in Addr :
       (Live(mem', a) /\ mem'[a].wrapped /\ ~(Live(mem, a) /\ mem[a].wrapped))
         => \/ lastOp'.op \in Ctors /\ TSend(mem'[a].ty, lastOp'.site)
            \/ lastOp'.op = "relocate" /\ Wrappers # {}
  /\ \A r \in refs' \ refs :
       r.wrap => \/ lastOp'.op \in RefCtors /\ TSend(r.ty, lastOp'.site)
                 \/ lastOp'.op = "borrow" /\ r.target \in Wrappers

\* C1: every wrapper that exists, owned or behind a reference, wraps a T
\* that is Send; a wrapper only comes into existence in a step of one of
\* the constructors (new, from, always_send, from_ref, from_mut,
\* from_pin_ref, from_pin_mut) whose call site proved T: Send, or as a
\* borrow or a move of a wrapper that already exists.
C1_SendCheckedConstruction == []C1_WrappersAreSend /\ [][C1_OnlyCheckedPaths]_vars

\* an owned wrapper and a wrapper reference made by from_ref exist
C1_Witness ==
  \E r \in refs : r.wrap /\ r.via = "from_ref" /\ r.target \in Wrappers

\* C2: a wrapper that exists can be handed to any other thread at any call
\* site, also one where the compiler cannot prove T: Send, for as long as
\* it exists (whenever it is neither borrowed nor pinned).
C2_WrapperAlwaysSend ==
  \A a \in Wrappers : Idle(a) =>
    \A th \in Threads \ {mem[a].thread}, site \in Sites : ENABLED SendTo(a, th, site)

\* a wrapper was sent at a call site where its T alone is not provably Send
C2_Witness ==
  /\ lastOp.op = "send" /\ lastOp.a \in Wrappers
  /\ ~TSend(mem[lastOp.a].ty, lastOp.site)
  /\ mem[lastOp.a].thread # 1

\* C3 as stated: a plain reference to any T, Send or not, can be wrapped by
\* a reference constructor.
C3_RefWrapUnchecked ==
  \A r \in refs : ~r.wrap => \E site \in Sites : ENABLED RefWrap(r, site)

\* C3 amended: from_ref, from_mut, from_pin_ref and from_pin_mut carry the
\* same T: Send bound as new: a plain reference can be wrapped at a call
\* site exactly when T is proved Send there; only inner_pin and
\* inner_pin_mut are free of the bound.
C3_RefWrapChecked ==
  /\ \A r \in refs : ~r.wrap =>
       \A site \in Sites : (ENABLED RefWrap(r, site)) <=> TSend(r.ty, site)
  /\ \A r \in refs : (r.wrap /\ r.pin) => ENABLED (InnerPin(r) \/ InnerPinMut(r))
  /\ lastOp.op \in RefCtors => TSend(mem[lastOp.a].ty, lastOp.site)

\* a pinned mutable reference to a T that is not Send is held
C3_Witness ==
  \E r \in refs : ~r.wrap /\ r.pin /\ r.mut /\ ~Types[r.ty].send

\* C4: polling the wrapper polls the inner future once with the caller's
\* context and returns its result: results, their order and the state of
\* the inner future are those of the same future polled directly, and a
\* future that is ready at once gives Ready(out) on the first poll.
C4_PollTransparent ==
  /\ \A a \in Addr : KindAt(mem, a) = "future" =>
       /\ mem[a].val = mem[a].twin
       /\ mem[a].whist = mem[a].dhist
       /\ mem[a].val.polls = Len(mem[a].whist)
       /\ (mem[a].base.rem = 0 /\ mem[a].whist # <<>>)
            => mem[a].whist[1] = Ready(mem[a].base.out)
  /\ lastOp.op = "poll" =>
       /\ lastOp.v = lastOp.d
       /\ lastOp.v = Pending => \E cx \in Wakers : mem[lastOp.a].val.waker = cx

\* the wrapper was polled twice: Pending, then Ready
C4_Witness ==
  /\ lastOp.op = "poll" /\ lastOp.v = Ready(7)
  /\ mem[lastOp.a].whist = <<Pending, Ready(7)>>

\* C5: with the stream feature, poll_next on the wrapper gives the results
\* of the same stream polled directly, in the same order, and size_hint on
\* the wrapper is the inner stream's size_hint at every point.
C5_StreamTransparent ==
  /\ \A a \in Addr : KindAt(mem, a) = "stream" =>
       /\ mem[a].val = mem[a].twin
       /\ mem[a].whist = mem[a].dhist
  /\ \A r \in refs : (r.wrap /\ Types[r.ty].kind = "stream") =>
       AlwaysSendSizeHint(mem, r.ptr) = SSizeHint(mem[r.target].twin)
  /\ lastOp.op \in {"poll_next", "size_hint"} => lastOp.v = lastOp.d

\* size_hint was asked of a wrapper that has yielded an item and has one left
C5_Witness ==
  /\ lastOp.op = "size_hint" /\ lastOp.v = <<1, <<1>> >>
  /\ \E i \in 1..Len(mem[lastOp.a].whist) : mem[lastOp.a].whist[i] = SReady(<<1>>)

C7_ConstructAndSend ==
  /\ lastOp.op \in Ctors =>
       /\ lastOp.a \in Wrappers
       /\ mem[lastOp.a].val = lastOp.v
       /\ TSend(mem[lastOp.a].ty, lastOp.site)
       /\ \A th \in Threads \ {mem[lastOp.a].thread} :
            ENABLED SendTo(lastOp.a, th, lastOp.site)
  /\ lastOp.op = "send" =>
       /\ Live(mem, lastOp.a)
       /\ mem[lastOp.a].val = lastOp.v

\* a future wrapped by always_send, or a value wrapped by new or from, has
\* arrived at another thread
C7_Witness ==
  /\ lastOp.op = "send" /\ lastOp.a \in Wrappers
  /\ mem[lastOp.a].thread = 2
  /\ mem[lastOp.a].val = lastOp.v

\* a counter holds its last written value plus the increments made since
C8_CounterValue ==
  \A a \in Addr : KindAt(mem, a) = "counter" =>
    mem[a].val = mem[a].base + mem[a].incs

\* a step that changes the inner value of a wrapper is a field write, an
\* increment or a forwarded poll
C8_OnlyFieldWrites ==
  \A a \in Addr :
    (Live(mem, a) /\ Live(mem', a) /\ mem[a].wrapped /\ mem'[a].wrapped
      /\ mem'[a].val # mem[a].val)
    => lastOp'.op \in {"write", "inc", "poll", "poll_next"}

\* C8: the value of a counter is its last written value plus the number of
\* increments made through inner since; the inner value of a wrapper only
\* changes in a write or an increment of the field or in a forwarded poll.
C8_NoHiddenState == []C8_CounterValue /\ [][C8_OnlyFieldWrites]_vars

\* a counter wrapped by value was incremented MaxIncs times
C8_Witness ==
  /\ lastOp.op = "inc" /\ lastOp.a \in Wrappers
  /\ mem[lastOp.a].incs = MaxIncs
  /\ mem[lastOp.a].val = mem[lastOp.a].base + MaxIncs

\* C9: from_pin_ref and from_pin_mut give a pinned wrapper reference at the
\* address of the T, inner_pin and inner_pin_mut give back a pinned
\* reference to the same T; the wrapper is Unpin exactly when T is: a
\* value, wrapped or not, is held in place by pinning exactly when its T is
\* not Unpin; a T that is not Unpin and has been polled stays at the
\* address it was first polled at.
C9_StructuralPinning ==
  /\ \A r \in refs :
       /\ r.via \in {"from_pin_ref", "from_pin_mut"} => r.pin /\ r.wrap /\ r.ptr = r.target
       /\ r.via \in {"inner_pin", "inner_pin_mut"} => r.pin /\ ~r.wrap /\ r.ptr = r.target
       /\ (r.pin /\ ~Types[r.ty].unpin) => mem[r.target].pinned
  /\ \A a \in Addr : (Live(mem, a) /\ Types[mem[a].ty].unpin) => ~mem[a].pinned
  /\ \A a \in Addr :
       (KindAt(mem, a) \in {"future", "stream"} /\ ~Types[mem[a].ty].unpin
         /\ mem[a].val.self # NoAddr) => mem[a].val.self = a

\* a future that is not Unpin was polled through the wrapper and projected
\* back by inner_pin_mut
C9_Witness ==
  \E r \in refs :
    /\ r.via = "inner_pin_mut" /\ ~Types[r.ty].unpin
    /\ mem[r.target].val.self = r.target
    /\ mem[r.target].whist # <<>>

\* C10: with the stream feature, is_terminated of the wrapper is that of
\* the inner fused stream or fused future polled directly, at every point.
C10_TerminatedForwarded ==
  /\ \A r \in refs : (stream /\ r.wrap /\ Types[r.ty].fused) =>
       IF Types[r.ty].kind = "stream"
         THEN AlwaysSendStreamIsTerminated(mem, r.ptr) = SIsTerminated(mem[r.target].twin)
         ELSE AlwaysSendFutureIsTerminated(mem, r.ptr) = FIsTerminated(mem[r.target].twin)
  /\ lastOp.op \in {"stream_is_terminated", "future_is_terminated"} => lastOp.v = lastOp.d

\* a wrapper of a stream polled to its end was asked, and said terminated
C10_Witness ==
  /\ lastOp.op = "stream_is_terminated" /\ lastOp.v = TRUE
  /\ mem[lastOp.a].whist # <<>>

====
